---- MODULE Spec2Model ----
(***************************************************************************)
(* Model of torch-sys/build.rs: the build script that resolves a libtorch  *)
(* installation (SystemInfo::new, SystemInfo::prepare_libtorch_dir), then  *)
(* detects the accelerator backends and emits the cargo directives (main,  *)
(* SystemInfo::make).                                                      *)
(*                                                                         *)
(* One behaviour is a sequence of invocations of the script on the same    *)
(* OUT_DIR: the state of OUT_DIR/libtorch survives from one invocation to  *)
(* the next, everything else is per invocation.                            *)
(*                                                                         *)
(* Strings the script computes with (TORCH_CUDA_VERSION, the device token) *)
(* are sequences of one-character strings; paths are symbolic strings.     *)
(* An environment variable the script reads at most once and that no       *)
(* branch decided earlier depends on is drawn when it is read.             *)
(***************************************************************************)
EXTENDS Naturals, Sequences, FiniteSets

\* Longest TORCH_CUDA_VERSION value drawn for the normalization specification.
MaxLen == 4

\* .take(2) of the device-token fold
TakeCount == 2

TORCH_VERSION == "2.0.1"

\* Versions the interpreter probe may print.
ProbeVersions == {"2.0.1", "1.13.1"}

\* enum Os
OsValues == {"linux", "macos", "windows"}

\* Values of CARGO_CFG_TARGET_OS ("" stands for the variable being unset).
TargetOsValues == OsValues \cup {"freebsd", ""}

(***************************************************************************)
(* String operations used by the device-token derivation.                  *)
(***************************************************************************)
Alphabet == {" ", "c", "u", "C", ".", "1"}

RECURSIVE StringsOfLen(_)
StringsOfLen(n) ==
    IF n = 0 THEN {<<>>}
    ELSE {Append(s, c) : s \in StringsOfLen(n - 1), c \in Alphabet}

RECURSIVE StringsUpTo(_)
StringsUpTo(n) ==
    IF n = 0 THEN StringsOfLen(0) ELSE StringsOfLen(n) \cup StringsUpTo(n - 1)

IsWhitespace(c) == c \in {" ", "\t", "\n"}

RECURSIVE TrimStart(_)
TrimStart(s) ==
    IF Len(s) > 0 /\ IsWhitespace(s[1]) THEN TrimStart(Tail(s)) ELSE s

RECURSIVE TrimEnd(_)
TrimEnd(s) ==
    IF Len(s) > 0 /\ IsWhitespace(s[Len(s)])
    THEN TrimEnd(SubSeq(s, 1, Len(s) - 1))
    ELSE s

\* str::trim
Trim(s) == TrimEnd(TrimStart(s))

LowerChar(c) ==
    CASE c = "C" -> "c"
      [] c = "U" -> "u"
      [] c = "P" -> "p"
      [] OTHER -> c

\* str::to_lowercase
ToLowercase(s) == [i \in DOMAIN s |-> LowerChar(s[i])]

\* str::trim_start_matches("cu"): the prefix is removed as often as it matches
RECURSIVE TrimStartMatchesCu(_)
TrimStartMatchesCu(s) ==
    IF Len(s) >= 2 /\ s[1] = "c" /\ s[2] = "u"
    THEN TrimStartMatchesCu(SubSeq(s, 3, Len(s)))
    ELSE s

\* str::split('.'): the components between the dots, at least one
RECURSIVE SplitDot(_)
SplitDot(s) ==
    IF \E i \in DOMAIN s : s[i] = "."
    THEN LET i == CHOOSE j \in DOMAIN s :
                     s[j] = "." /\ \A k \in 1..(j - 1) : s[k] # "."
         IN <<SubSeq(s, 1, i - 1)>> \o SplitDot(SubSeq(s, i + 1, Len(s)))
    ELSE <<s>>

\* Iterator::take
Take(q, n) == SubSeq(q, 1, IF Len(q) < n THEN Len(q) ELSE n)

\* Iterator::fold(acc, |acc, curr| acc + curr)
RECURSIVE FoldConcat(_, _)
FoldConcat(acc, q) ==
    IF q = <<>> THEN acc ELSE FoldConcat(acc \o Head(q), Tail(q))

\* DeviceToken without trim_start_matches("cu")
DeviceTokenNoStrip(cuda_env) ==
    FoldConcat(<<"c", "u">>,
               Take(SplitDot(ToLowercase(Trim(cuda_env))), TakeCount))

\* The Linux | Windows arm of the match on TORCH_CUDA_VERSION
DeviceToken(cuda_env) ==
    FoldConcat(<<"c", "u">>,
               Take(SplitDot(TrimStartMatchesCu(ToLowercase(Trim(cuda_env)))),
                    TakeCount))

Cpu == <<"c", "p", "u">>

\* The device tokens the URL templates map ("cpu", "cu102", ..., "cu118")
MappedDevices ==
    { Cpu,
      <<"c", "u", "1", "0", "2">>,
      <<"c", "u", "1", "1", "3">>,
      <<"c", "u", "1", "1", "6">>,
      <<"c", "u", "1", "1", "7">>,
      <<"c", "u", "1", "1", "8">> }

\* TORCH_CUDA_VERSION values drawn in the build specification:
\* "11.8", "9.0" and " CU11.3.1"
CudaInputs ==
    { <<"1", "1", ".", "8">>,
      <<"9", ".", "0">>,
      <<" ", "C", "U", "1", "1", ".", "3", ".", "1">> }

NoString == <<>>

(***************************************************************************)
(* The pure decisions of the script.                                       *)
(***************************************************************************)
\* match on CARGO_CFG_TARGET_OS in SystemInfo::new
ParseOs(target_os) == IF target_os \in OsValues THEN target_os ELSE "none"

\* The interpreter the probes run
PythonInterpreter(o, virtual_env) ==
    IF o = "windows" THEN "python.exe"
    ELSE IF virtual_env THEN "python" ELSE "python3"

\* VersionCheckFails without the bypass variable
VersionCheckFailsNoBypass(bypass_set, version) == version # TORCH_VERSION

\* The condition of the bail on a LIBTORCH_VERSION line
VersionCheckFails(bypass_set, version) ==
    ~bypass_set /\ version # TORCH_VERSION

\* SystemInfo::check_system_location: TRUE when it returns Some("/usr")
CheckSystemLocation(o, usr_lib_libtorch_so) ==
    o = "linux" /\ usr_lib_libtorch_so

\* PrepareChoice with the system location looked at before LIBTORCH
PrepareChoiceSystemFirst(libtorch_set, system_found) ==
    IF system_found THEN "system"
    ELSE IF libtorch_set THEN "user" ELSE "download"

\* The if / else-if / else of prepare_libtorch_dir
PrepareChoice(libtorch_set, system_found) ==
    IF libtorch_set THEN "user"
    ELSE IF system_found THEN "system" ELSE "download"

\* TargetDirMissing without the look at the directory
TargetDirMissingAlways(dir_state) == TRUE

\* !libtorch_dir.exists()
TargetDirMissing(dir_state) == dir_state = "absent"

\* The suffix match of the Linux URL template: FALSE is the bail
LinuxDeviceMapped(dev) == dev \in MappedDevices

Backends == {"cuda", "cuda_cu", "cuda_cpp", "hip"}

SoName(b) == "libtorch_" \o b \o ".so"

DllName(b) == "torch_" \o b \o ".dll"

\* The contents of a library directory, as far as the script looks at them:
\* the marker files of some backends, named as on one platform.
FileSets ==
    {{SoName(b) : b \in B} : B \in SUBSET Backends}
        \cup {{DllName(b) : b \in B} : B \in SUBSET Backends}

UseCuda(fs) == "libtorch_cuda.so" \in fs \/ "torch_cuda.dll" \in fs

\* UseCudaCu looking for the marker of torch_cuda
UseCudaCuAsCuda(fs) == "libtorch_cuda.so" \in fs \/ "torch_cuda.dll" \in fs

UseCudaCu(fs) == "libtorch_cuda_cu.so" \in fs \/ "torch_cuda_cu.dll" \in fs

UseCudaCpp(fs) == "libtorch_cuda_cpp.so" \in fs \/ "torch_cuda_cpp.dll" \in fs

UseHip(fs) == "libtorch_hip.so" \in fs \/ "torch_hip.dll" \in fs

\* CudaDependency with the dummy stub whatever the flags
CudaDependencyAnyFlag(use_cuda, use_hip) == "libtch/dummy_cuda_dependency.cpp"

\* let cuda_dependency = ... in SystemInfo::make
CudaDependency(use_cuda, use_hip) ==
    IF use_cuda \/ use_hip
    THEN "libtch/dummy_cuda_dependency.cpp"
    ELSE "libtch/fake_cuda_dependency.cpp"

\* The sources SystemInfo::make registers whatever the stub
GlueSources ==
    {"libtch/torch_python.cpp", "libtch/torch_python.h",
     "libtch/torch_api.cpp", "libtch/torch_api.h",
     "libtch/torch_api_generated.cpp.h", "libtch/torch_api_generated.h",
     "libtch/stb_image_write.h", "libtch/stb_image_resize.h",
     "libtch/stb_image.h"}

RerunIfChanged(file) == "cargo:rerun-if-changed=" \o file

\* The c_files handed to cc::Build in SystemInfo::make
CFiles(use_cuda, use_hip, python_extension) ==
    {"libtch/torch_api.cpp", CudaDependency(use_cuda, use_hip)}
        \cup (IF python_extension THEN {"libtch/torch_python.cpp"} ELSE {})

\* The rustc-link-lib directives of main, by library name
LinkLibs(u, python_extension) ==
    {"static=tch"}
        \cup (IF u.cuda THEN {"torch_cuda"} ELSE {})
        \cup (IF u.cuda_cu THEN {"torch_cuda_cu"} ELSE {})
        \cup (IF u.cuda_cpp THEN {"torch_cuda_cpp"} ELSE {})
        \cup (IF u.hip THEN {"torch_hip"} ELSE {})
        \cup (IF python_extension THEN {"torch_python"} ELSE {})
        \cup {"torch_cpu", "torch", "c10"}
        \cup (IF u.hip THEN {"c10_hip"} ELSE {})

LinkDirective(lib) == "cargo:rustc-link-lib=" \o lib

SearchDirective == "cargo:rustc-link-search=native"

\* The last directive of main: gomp unless the target is msvc or apple
GompLibs(target) ==
    IF target # "msvc" /\ target # "apple" THEN {"gomp"} ELSE {}

OutLibtorch == "$OUT_DIR/libtorch/libtorch"

\* What the library directory may hold when main looks into it.  /usr/lib
\* holds libtorch.so (check_system_location has just seen it); the download
\* directory holds what the download and the extraction left there; a
\* directory named by the user or by the interpreter is anything.
LibDirStates(lib_dir, out_state) ==
    IF lib_dir = "/usr/lib" THEN {"populated"}
    ELSE IF lib_dir = OutLibtorch \o "/lib"
    THEN CASE out_state = "complete" -> {"populated"}
           [] out_state = "partial" -> {"absent", "empty", "populated"}
           [] OTHER -> {"absent"}
    ELSE {"absent", "empty", "populated"}

NoUse == [cuda |-> FALSE, cuda_cu |-> FALSE, cuda_cpp |-> FALSE, hip |-> FALSE]

NoCuda == [set |-> FALSE, val |-> NoString]

(***************************************************************************)
(* State.                                                                  *)
(***************************************************************************)
VARIABLES
    env,                    \* the invocation's environment and build features
    outdir,                 \* OUT_DIR/libtorch: absent, empty, zip, partial, complete
    pc,                     \* where the invocation stands
    err,                    \* the error the invocation ended with, or "none"
    mode,                   \* the resolution mode taken, or "none"
    os, python_interpreter, cxx11_abi, libtorch_include_dirs, libtorch_lib_dir,
                            \* the fields of SystemInfo
    libtorch,               \* what prepare_libtorch_dir returned
    probe_version, bypass,  \* the LIBTORCH_VERSION line and the bypass variable
    cuda, device, device2,  \* TORCH_CUDA_VERSION, its token, the token's token
    dirExisted,             \* whether OUT_DIR/libtorch existed when looked at
    url,                    \* the archive's URL
    libState, files, use,   \* the library directory as main sees it
    c_files,                \* the sources handed to the compiler
    directives,             \* the cargo directives printed, but for
    registered,             \*   rerun-if-env-changed: the names registered
    readVars,               \* the environment variables read
    ops                     \* the operations performed

sysinfo == <<os, python_interpreter, cxx11_abi, libtorch_include_dirs,
             libtorch_lib_dir>>

download_vars == <<cuda, device, device2, dirExisted, url>>

emit_vars == <<libState, files, use, c_files, directives>>

vars == <<env, outdir, pc, err, mode, sysinfo, libtorch,
          probe_version, bypass, download_vars, emit_vars, registered,
          readVars, ops>>

Envs ==
    [os : TargetOsValues, usePytorch : BOOLEAN, libtorch : BOOLEAN,
     sysLib : BOOLEAN, pyext : BOOLEAN]

NoEnv ==
    [os |-> "", usePytorch |-> FALSE, libtorch |-> FALSE, sysLib |-> FALSE,
     pyext |-> FALSE]

\* No invocation is running; OUT_DIR/libtorch does not exist yet.
Init ==
    /\ env = NoEnv
    /\ outdir = "absent"
    /\ pc = "idle" /\ err = "none" /\ mode = "none"
    /\ os = "none" /\ python_interpreter = "none" /\ cxx11_abi = "none"
    /\ libtorch_include_dirs = <<>> /\ libtorch_lib_dir = "none"
    /\ libtorch = "none" /\ probe_version = "none" /\ bypass = "unread"
    /\ cuda = NoCuda /\ device = NoString /\ device2 = NoString
    /\ dirExisted = "unknown" /\ url = "none"
    /\ libState = "unknown" /\ files = {} /\ use = NoUse /\ c_files = {}
    /\ directives = {} /\ registered = {} /\ readVars = {} /\ ops = {}

\* env::var and env::var_os
EnvVar(names) ==
    /\ readVars' = readVars \cup names
    /\ UNCHANGED registered

\* env_var_rerun
EnvVarRerun(names) ==
    /\ readVars' = readVars \cup names
    /\ registered' = registered \cup names

Fail(e) == pc' = "failed" /\ err' = e

(***************************************************************************)
(* The invocation, step by step.                                           *)
(***************************************************************************)
\* main: the doc-only guard, then SystemInfo::new is entered
Main ==
    /\ pc = "start"
    /\ \E doc_only \in BOOLEAN :
          pc' = IF doc_only THEN "done" ELSE "new"
    /\ UNCHANGED <<env, outdir, err, mode, sysinfo, libtorch,
                   probe_version, bypass, download_vars, emit_vars,
                   registered, readVars, ops>>

\* SystemInfo::new: the target OS, the interpreter, the python-extension probe
DetectPlatform ==
    /\ pc = "new"
    /\ IF env.os = ""
       THEN /\ Fail("no_target_os")
            /\ EnvVar({"CARGO_CFG_TARGET_OS"})
            /\ UNCHANGED <<sysinfo, ops>>
       ELSE IF ParseOs(env.os) = "none"
       THEN /\ Fail("unsupported_os")
            /\ EnvVar({"CARGO_CFG_TARGET_OS"})
            /\ UNCHANGED <<sysinfo, ops>>
       ELSE \E virtual_env \in BOOLEAN, spawned \in BOOLEAN :
            /\ os' = ParseOs(env.os)
            /\ ParseOs(env.os) = "windows" => ~virtual_env
            /\ python_interpreter' = PythonInterpreter(ParseOs(env.os), virtual_env)
            /\ EnvVar({"CARGO_CFG_TARGET_OS"}
                        \cup (IF ParseOs(env.os) = "windows" THEN {}
                              ELSE {"VIRTUAL_ENV"}))
            /\ ~env.pyext => spawned
            /\ ops' = ops \cup (IF env.pyext THEN {"python_include_probe"} ELSE {})
            /\ IF spawned
               THEN /\ libtorch_include_dirs' =
                          IF env.pyext THEN <<"$PYTHON_INCLUDE">> ELSE <<>>
                    /\ pc' = "select"
                    /\ UNCHANGED err
               ELSE /\ Fail("interpreter_not_run")
                    /\ UNCHANGED libtorch_include_dirs
            /\ UNCHANGED <<cxx11_abi, libtorch_lib_dir>>
    /\ UNCHANGED <<env, outdir, mode, libtorch, probe_version,
                   bypass, download_vars, emit_vars>>

\* SystemInfo::new: if env_var_rerun("LIBTORCH_USE_PYTORCH").is_ok()
SelectMode ==
    /\ pc = "select"
    /\ EnvVarRerun({"LIBTORCH_USE_PYTORCH"})
    /\ IF env.usePytorch
       THEN /\ mode' = "pytorch"
            /\ pc' = "probe"
            /\ UNCHANGED ops
       ELSE /\ pc' = "prepare"
            /\ ops' = ops \cup {"prepare_libtorch_dir"}
            /\ UNCHANGED mode
    /\ UNCHANGED <<env, outdir, err, sysinfo, libtorch,
                   probe_version, bypass, download_vars, emit_vars>>

\* SystemInfo::new: the externally-managed branch.  The interpreter prints at
\* most one LIBTORCH_VERSION line, one LIBTORCH_CXX11 line, include lines and
\* a LIBTORCH_LIB line; any of them may be missing.
PythonProbe ==
    /\ pc = "probe"
    /\ \E spawned \in BOOLEAN, version \in ProbeVersions \cup {"none"},
          cxx11 \in {"none", "True", "False"}, lib \in BOOLEAN,
          bypass_set \in BOOLEAN :
          /\ ops' = ops \cup {"pytorch_probe"}
          /\ IF ~spawned
             THEN /\ version = "none" /\ cxx11 = "none" /\ ~lib /\ ~bypass_set
                  /\ Fail("interpreter_not_run")
                  /\ UNCHANGED <<sysinfo, probe_version, bypass, registered,
                                 readVars>>
             ELSE /\ probe_version' = version
                  /\ version = "none" => ~bypass_set
                  /\ bypass' = IF version = "none" THEN "unread"
                               ELSE IF bypass_set THEN "set" ELSE "unset"
                  /\ EnvVarRerun(IF version = "none" THEN {}
                                 ELSE {"LIBTORCH_BYPASS_VERSION_CHECK"})
                  /\ IF version # "none" /\ VersionCheckFails(bypass_set, version)
                     THEN /\ Fail("version_mismatch")
                          /\ UNCHANGED sysinfo
                     ELSE IF cxx11 = "none"
                     THEN /\ Fail("no_cxx11_abi")
                          /\ UNCHANGED sysinfo
                     ELSE IF ~lib
                     THEN /\ Fail("no_lib_dir")
                          /\ UNCHANGED sysinfo
                     ELSE /\ cxx11_abi' = IF cxx11 = "True" THEN "1" ELSE "0"
                          /\ libtorch_include_dirs' =
                                 Append(libtorch_include_dirs, "$PYTORCH_INCLUDE")
                          /\ libtorch_lib_dir' = "$PYTORCH_LIB"
                          /\ pc' = "detect"
                          /\ UNCHANGED <<os, python_interpreter, err>>
    /\ UNCHANGED <<env, outdir, mode, libtorch, download_vars,
                   emit_vars>>

\* prepare_libtorch_dir: LIBTORCH, then the system location, else download
PrepareOverride ==
    /\ pc = "prepare"
    /\ EnvVarRerun({"LIBTORCH"})
    /\ LET found == CheckSystemLocation(os, env.sysLib)
           choice == PrepareChoice(env.libtorch, found)
       IN /\ mode' = choice
          /\ ops' = ops \cup (IF choice = "user" THEN {}
                              ELSE {"check_system_location"})
          /\ libtorch' = CASE choice = "user" -> "$LIBTORCH"
                           [] choice = "system" -> "/usr"
                           [] OTHER -> libtorch
          /\ pc' = IF choice = "download" THEN "device" ELSE "finish"
    /\ UNCHANGED <<env, outdir, err, sysinfo, probe_version,
                   bypass, download_vars, emit_vars>>

\* prepare_libtorch_dir: let device = match env_var_rerun("TORCH_CUDA_VERSION")
DeriveDeviceFrom(values) ==
    /\ pc = "device"
    /\ EnvVarRerun({"TORCH_CUDA_VERSION"})
    /\ \E c \in {NoCuda} \cup {[set |-> TRUE, val |-> v] : v \in values} :
          /\ cuda' = c
          /\ IF ~c.set
             THEN /\ device' = Cpu
                  /\ pc' = "target_dir"
                  /\ UNCHANGED err
             ELSE IF os \in {"linux", "windows"}
             THEN /\ device' = DeviceToken(c.val)
                  /\ pc' = "target_dir"
                  /\ UNCHANGED err
             ELSE /\ Fail("cuda_on_unsupported_os")
                  /\ UNCHANGED device
    /\ UNCHANGED <<env, outdir, mode, sysinfo, libtorch,
                   probe_version, bypass, device2, dirExisted, url, emit_vars,
                   ops>>

DeriveDevice == DeriveDeviceFrom(CudaInputs)

\* prepare_libtorch_dir: OUT_DIR/libtorch, looked at and created if missing
TargetDir ==
    /\ pc = "target_dir"
    /\ EnvVar({"OUT_DIR"})
    /\ \E out_dir_set \in BOOLEAN, created \in BOOLEAN :
          IF ~out_dir_set
          THEN /\ ~created
               /\ Fail("no_out_dir")
               /\ UNCHANGED <<outdir, dirExisted, libtorch, ops>>
          ELSE /\ dirExisted' = IF outdir = "absent" THEN "no" ELSE "yes"
               /\ IF TargetDirMissing(outdir)
                  THEN /\ outdir' = IF created /\ outdir = "absent"
                                    THEN "empty" ELSE outdir
                       /\ ops' = ops \cup {"create_dir"}
                       /\ pc' = "url"
                       /\ UNCHANGED <<libtorch, err>>
                  ELSE /\ ~created
                       /\ libtorch' = OutLibtorch
                       /\ pc' = "finish"
                       /\ UNCHANGED <<outdir, ops, err>>
    /\ UNCHANGED <<env, mode, sysinfo, probe_version, bypass,
                   cuda, device, device2, url, emit_vars, registered>>

\* prepare_libtorch_dir: let libtorch_url = match os
BuildUrl ==
    /\ pc = "url"
    /\ CASE os = "linux" ->
              /\ IF LinuxDeviceMapped(device)
                 THEN url' = "linux" /\ pc' = "download" /\ UNCHANGED err
                 ELSE Fail("unsupported_device") /\ UNCHANGED url
              /\ UNCHANGED <<readVars, ops>>
         [] os = "windows" ->
              \* the suffix match has no failing arm: _ => ""
              /\ url' = IF device \in MappedDevices THEN "windows"
                        ELSE "windows_without_suffix"
              /\ pc' = "download"
              /\ UNCHANGED <<err, readVars, ops>>
         [] OTHER ->
              /\ readVars' = readVars \cup {"CARGO_CFG_TARGET_ARCH"}
              /\ \E aarch64 \in BOOLEAN, download_libtorch \in BOOLEAN,
                    found \in BOOLEAN :
                    IF ~aarch64
                    THEN /\ ~download_libtorch /\ ~found
                         /\ url' = "macos"
                         /\ pc' = "download"
                         /\ UNCHANGED <<err, ops>>
                    ELSE /\ ~download_libtorch => ~found
                         /\ ops' = ops \cup (IF download_libtorch
                                             THEN {"pypi_query"} ELSE {})
                         /\ IF found
                            THEN url' = "pypi_wheel" /\ pc' = "download"
                                 /\ UNCHANGED err
                            ELSE Fail("pypi_lookup") /\ UNCHANGED url
    /\ UNCHANGED <<env, outdir, mode, sysinfo, libtorch,
                   probe_version, bypass, cuda, device, device2, dirExisted,
                   emit_vars, registered>>

\* download(&libtorch_url, &filename): the file is created, then fetched into
Download ==
    /\ pc = "download"
    /\ \E ureq \in BOOLEAN,
          outcome \in {"no_feature", "not_created", "transport", "status",
                       "copy", "ok"} :
          /\ ureq <=> outcome # "no_feature"
          /\ outdir = "absent" => outcome \in {"no_feature", "not_created"}
          /\ outdir' = IF outcome \in {"no_feature", "not_created"}
                       THEN outdir ELSE "zip"
          /\ ops' = ops \cup (IF outcome \in {"no_feature", "not_created"}
                              THEN {} ELSE {"fetch"})
          /\ IF outcome = "ok"
             THEN pc' = "extract" /\ UNCHANGED err
             ELSE Fail("download_" \o outcome)
    /\ UNCHANGED <<env, mode, sysinfo, libtorch, probe_version,
                   bypass, download_vars, emit_vars, registered, readVars>>

\* extract(&filename, &libtorch_dir), then Ok(libtorch_dir.join("libtorch"))
Extract ==
    /\ pc = "extract"
    /\ ops' = ops \cup {"extract"}
    /\ \E outcome \in {"bad_archive", "entry", "rename", "ok"} :
          /\ outdir' = CASE outcome = "bad_archive" -> "zip"
                         [] outcome = "ok" -> "complete"
                         [] OTHER -> "partial"
          /\ IF outcome = "ok"
             THEN libtorch' = OutLibtorch /\ pc' = "finish" /\ UNCHANGED err
             ELSE Fail("extract_" \o outcome) /\ UNCHANGED libtorch
    /\ UNCHANGED <<env, mode, sysinfo, probe_version, bypass,
                   download_vars, emit_vars, registered, readVars>>

\* SystemInfo::new: the else branch after prepare_libtorch_dir returned
FinishNew ==
    /\ pc = "finish"
    /\ EnvVarRerun({"LIBTORCH_INCLUDE", "LIBTORCH_LIB", "LIBTORCH_CXX11_ABI"})
    /\ \E include_set \in BOOLEAN, lib_set \in BOOLEAN, abi_set \in BOOLEAN :
          /\ LET includes == IF include_set THEN "$LIBTORCH_INCLUDE" ELSE libtorch
             IN libtorch_include_dirs' =
                    libtorch_include_dirs
                        \o <<includes \o "/include",
                             includes \o "/include/torch/csrc/api/include">>
          /\ libtorch_lib_dir' =
                 (IF lib_set THEN "$LIBTORCH_LIB" ELSE libtorch) \o "/lib"
          /\ cxx11_abi' = IF abi_set THEN "$LIBTORCH_CXX11_ABI" ELSE "1"
    /\ pc' = "detect"
    /\ UNCHANGED <<env, outdir, err, mode, os, python_interpreter,
                   libtorch, probe_version, bypass, download_vars, emit_vars,
                   ops>>

\* main: the four use_* flags, read off the library directory
DetectBackends ==
    /\ pc = "detect"
    /\ \E st \in LibDirStates(libtorch_lib_dir, outdir), fs \in FileSets :
          /\ st # "populated" => fs = {}
          /\ libState' = st
          /\ files' = fs
          /\ use' = [cuda |-> UseCuda(fs), cuda_cu |-> UseCudaCu(fs),
                     cuda_cpp |-> UseCudaCpp(fs), hip |-> UseHip(fs)]
    /\ pc' = "emit"
    /\ UNCHANGED <<env, outdir, err, mode, sysinfo, libtorch,
                   probe_version, bypass, download_vars, c_files, directives,
                   registered, readVars, ops>>

\* main: the rustc-link-search directive, then system_info.make
Make ==
    /\ pc = "emit"
    /\ c_files' = CFiles(use.cuda, use.hip, env.pyext)
    /\ directives' =
           directives
               \cup {SearchDirective}
               \cup {RerunIfChanged(f) :
                        f \in {CudaDependency(use.cuda, use.hip)} \cup GlueSources}
               \cup (IF os = "windows" THEN {} ELSE {"cargo:libtorch_lib"})
    /\ \E compiled \in BOOLEAN :
          IF compiled THEN pc' = "link" /\ UNCHANGED err
          ELSE Fail("compile")
    /\ UNCHANGED <<env, outdir, mode, sysinfo, libtorch,
                   probe_version, bypass, download_vars, libState, files, use,
                   registered, readVars, ops>>

\* main: the rustc-link-lib directives, TARGET and gomp
EmitLinks ==
    /\ pc = "link"
    /\ readVars' = readVars \cup {"TARGET"}
    /\ \E target \in {"", "gnu", "msvc", "apple"} :
          /\ directives' =
                 directives
                     \cup {LinkDirective(l) : l \in LinkLibs(use, env.pyext)}
                     \cup (IF target = "" THEN {}
                           ELSE {LinkDirective(l) : l \in GompLibs(target)})
          /\ IF target = "" THEN Fail("no_target")
             ELSE pc' = "done" /\ UNCHANGED err
    /\ UNCHANGED <<env, outdir, mode, sysinfo, libtorch,
                   probe_version, bypass, download_vars, libState, files, use,
                   c_files, registered, ops>>

\* The process exits; what it left in OUT_DIR stays
Exit ==
    /\ pc \in {"done", "failed"}
    /\ env' = NoEnv
    /\ UNCHANGED outdir
    /\ pc' = "idle" /\ err' = "none" /\ mode' = "none"
    /\ os' = "none" /\ python_interpreter' = "none" /\ cxx11_abi' = "none"
    /\ libtorch_include_dirs' = <<>> /\ libtorch_lib_dir' = "none"
    /\ libtorch' = "none" /\ probe_version' = "none" /\ bypass' = "unread"
    /\ cuda' = NoCuda /\ device' = NoString /\ device2' = NoString
    /\ dirExisted' = "unknown" /\ url' = "none"
    /\ libState' = "unknown" /\ files' = {} /\ use' = NoUse /\ c_files' = {}
    /\ directives' = {} /\ registered' = {} /\ readVars' = {} /\ ops' = {}

\* cargo runs the script, in some environment, built with some features
Invoke ==
    /\ pc = "idle"
    /\ env' \in Envs
    /\ pc' = "start"
    /\ UNCHANGED <<outdir, err, mode, sysinfo, libtorch, probe_version,
                   bypass, download_vars, emit_vars, registered, readVars, ops>>

Next ==
    \/ Invoke
    \/ Main
    \/ DetectPlatform
    \/ SelectMode
    \/ PythonProbe
    \/ PrepareOverride
    \/ DeriveDevice
    \/ TargetDir
    \/ BuildUrl
    \/ Download
    \/ Extract
    \/ FinishNew
    \/ DetectBackends
    \/ Make
    \/ EmitLinks
    \/ Exit

Spec == Init /\ [][Next]_vars

(***************************************************************************)
(* The device-token derivation on its own: the state in which              *)
(* prepare_libtorch_dir is about to read TORCH_CUDA_VERSION, for every     *)
(* target OS and every value of the variable up to MaxLen characters, and  *)
(* the derivation applied once more to its own result.                     *)
(***************************************************************************)
InitNorm ==
    /\ env \in {e \in Envs : e.os \in OsValues /\ ~e.usePytorch /\ ~e.libtorch
                              /\ ~e.sysLib /\ ~e.pyext}
    /\ outdir = "absent"
    /\ pc = "device" /\ err = "none" /\ mode = "download"
    /\ os = ParseOs(env.os)
    /\ python_interpreter = PythonInterpreter(os, FALSE)
    /\ cxx11_abi = "none"
    /\ libtorch_include_dirs = <<>> /\ libtorch_lib_dir = "none"
    /\ libtorch = "none" /\ probe_version = "none" /\ bypass = "unread"
    /\ cuda = NoCuda /\ device = NoString /\ device2 = NoString
    /\ dirExisted = "unknown" /\ url = "none"
    /\ libState = "unknown" /\ files = {} /\ use = NoUse /\ c_files = {}
    /\ directives = {}
    /\ registered = {"LIBTORCH_USE_PYTORCH", "LIBTORCH"}
    /\ readVars = {"CARGO_CFG_TARGET_OS", "LIBTORCH_USE_PYTORCH", "LIBTORCH"}
                      \cup (IF os = "windows" THEN {} ELSE {"VIRTUAL_ENV"})
    /\ ops = {"prepare_libtorch_dir", "check_system_location"}

\* Every string over Alphabet of at most MaxLen characters
BoundedCudaInputs == StringsUpTo(MaxLen)

NormDerive == DeriveDeviceFrom(BoundedCudaInputs)

\* The derivation applied to the token it produced
Renormalize ==
    /\ pc = "target_dir"
    /\ cuda.set
    /\ device2' = DeviceToken(device)
    /\ pc' = "renormalized"
    /\ UNCHANGED <<env, outdir, err, mode, sysinfo, libtorch, probe_version,
                   bypass, cuda, device, dirExisted, url, emit_vars,
                   registered, readVars, ops>>

NextNorm == NormDerive \/ Renormalize

SpecNorm == InitNorm /\ [][NextNorm]_vars

(***************************************************************************)
(* Properties.                                                             *)
(***************************************************************************)
NetworkOps == {"pypi_query", "fetch"}

\* SystemInfo::new has returned Ok
Resolved == libtorch_lib_dir # "none"

ExpectedMode(e) ==
    IF e.usePytorch THEN "pytorch"
    ELSE IF e.libtorch THEN "user"
    ELSE IF e.os = "linux" /\ e.sysLib THEN "system"
    ELSE "download"

\* C1: whatever the environment, the mode taken is the first that applies of
\* externally-managed (LIBTORCH_USE_PYTORCH set), user-directory (LIBTORCH
\* set), system-install (Linux and /usr/lib/libtorch.so exists), download; a
\* resolved invocation has taken a mode.  With LIBTORCH_USE_PYTORCH set,
\* prepare_libtorch_dir never runs, nothing is downloaded or extracted and
\* the library directory is the one the interpreter printed, also when
\* LIBTORCH is set.  With LIBTORCH set and LIBTORCH_USE_PYTORCH unset, the
\* system location is not checked and nothing is downloaded.
C1_ModePriority ==
    /\ mode # "none" => mode = ExpectedMode(env)
    /\ Resolved => mode # "none"
    /\ env.usePytorch =>
          /\ "prepare_libtorch_dir" \notin ops
          /\ ops \cap (NetworkOps \cup {"create_dir", "extract"}) = {}
          /\ libtorch_lib_dir \in {"none", "$PYTORCH_LIB"}
    /\ (env.libtorch /\ ~env.usePytorch) =>
          /\ "check_system_location" \notin ops
          /\ ops \cap (NetworkOps \cup {"create_dir", "extract"}) = {}

C1_BothOverridesSet ==
    /\ env.usePytorch /\ env.libtorch
    /\ pc = "done"
    /\ mode = "pytorch"
    /\ libtorch_lib_dir = "$PYTORCH_LIB"

\* C2: in externally-managed mode, once the LIBTORCH_VERSION line is read: a
\* version equal to TORCH_VERSION never fails the check; a different version
\* with LIBTORCH_BYPASS_VERSION_CHECK unset ends the invocation with the
\* version error; a different version with the variable set never does, and
\* the invocation goes on.
C2_VersionCheck ==
    (mode = "pytorch" /\ probe_version # "none") =>
        /\ bypass \in {"set", "unset"}
        /\ probe_version = TORCH_VERSION => err # "version_mismatch"
        /\ (probe_version # TORCH_VERSION /\ bypass = "unset") =>
               (pc = "failed" /\ err = "version_mismatch" /\ ~Resolved)
        /\ (probe_version # TORCH_VERSION /\ bypass = "set") =>
               err # "version_mismatch"

C2_MismatchBypassed ==
    /\ mode = "pytorch"
    /\ probe_version = "1.13.1"
    /\ bypass = "set"
    /\ pc = "done"

\* C3: when main reaches the rustc-link-search directive, the resolved
\* library directory exists and is not empty.
C3_LibDirPopulatedAtEmission ==
    pc = "emit" => libState = "populated"

\* OUT_DIR/libtorch existed when this invocation's prepare_libtorch_dir ran in
\* download mode (with OUT_DIR set): until the script has looked at the
\* directory, outdir is still what the invocation found.
ExistedAtPrepare ==
    /\ mode = "download"
    /\ err # "no_out_dir"
    /\ \/ dirExisted = "yes"
       \/ dirExisted = "unknown" /\ pc # "target_dir" /\ outdir # "absent"

PrepareOver == pc \notin {"device", "target_dir"}

\* C4 as stated: if OUT_DIR/libtorch exists, populated by an earlier
\* invocation, when prepare_libtorch_dir runs in download mode, the invocation
\* queries no index, fetches and extracts nothing, and returns
\* OUT_DIR/libtorch/libtorch.
C4_ExistingDirAlwaysReturned ==
    (ExistedAtPrepare /\ outdir = "complete") =>
        /\ ops \cap (NetworkOps \cup {"extract"}) = {}
        /\ PrepareOver => libtorch = OutLibtorch

\* C4: if OUT_DIR/libtorch exists when prepare_libtorch_dir runs in download
\* mode, the invocation queries no index, fetches and extracts nothing, and
\* returns OUT_DIR/libtorch/libtorch, the directory the populating invocation
\* returned, unless the device-token derivation fails first (macOS with
\* TORCH_CUDA_VERSION set).
C4_ExistingDirSkipsDownload ==
    /\ ExistedAtPrepare =>
          /\ ops \cap (NetworkOps \cup {"extract"}) = {}
          /\ PrepareOver =>
                \/ libtorch = OutLibtorch
                \/ pc = "failed" /\ err = "cuda_on_unsupported_os"
                                 /\ os = "macos" /\ cuda.set
    /\ ("extract" \in ops /\ outdir = "complete") => libtorch = OutLibtorch

C4_SecondInvocationReuses ==
    /\ mode = "download"
    /\ dirExisted = "yes"
    /\ outdir = "complete"
    /\ libtorch_lib_dir = OutLibtorch \o "/lib"
    /\ pc = "done"

IsDigit(c) == c \in {"0", "1", "2", "3", "4", "5", "6", "7", "8", "9"}

\* A version with an optional cu prefix, in any case and with blanks around
\* it: what is left of it is digits and dots.
IsVersionString(s) ==
    LET body == TrimStartMatchesCu(ToLowercase(Trim(s)))
    IN \A i \in DOMAIN body : IsDigit(body[i]) \/ body[i] = "."

\* C5 as stated: on Linux and Windows the token of the token is the token,
\* for every value of TORCH_CUDA_VERSION.
C5_IdempotentOnEveryString ==
    pc = "renormalized" => device2 = device

\* C5: on Linux and Windows the token of the token is the token, for every
\* value of TORCH_CUDA_VERSION that is a version (digits and dots) with an
\* optional cu prefix, in any case and with blanks around it; "9.0" and "cu90"
\* give "cu90", "  CU11.3.1" gives "cu113"; with the variable unset the token
\* is "cpu".
C5_IdempotentOnVersions ==
    /\ (pc = "renormalized" /\ IsVersionString(cuda.val)) => device2 = device
    /\ (pc \in {"target_dir", "renormalized"} /\ cuda.set) =>
           (os \in {"linux", "windows"} /\ device = DeviceToken(cuda.val))
    /\ (pc = "target_dir" /\ ~cuda.set) => device = Cpu
    /\ DeviceToken(<<"9", ".", "0">>) = <<"c", "u", "9", "0">>
    /\ DeviceToken(<<"c", "u", "9", "0">>) = <<"c", "u", "9", "0">>
    /\ DeviceToken(<<" ", " ", "C", "U", "1", "1", ".", "3", ".", "1">>)
           = <<"c", "u", "1", "1", "3">>

C5_PrefixedVersionRenormalized ==
    /\ pc = "renormalized"
    /\ cuda.val = <<" ", "C", "u", "1">>
    /\ device = <<"c", "u", "1">>
    /\ device2 = device

\* The token is outside the allow-list of the target OS.
UnmappedDevice ==
    /\ mode = "download"
    /\ \/ os \in {"linux", "windows"} /\ device # NoString
                                      /\ device \notin MappedDevices
       \/ os = "macos" /\ cuda.set

\* C6: in download mode a device token outside the allow-list of the OS (on
\* macOS, any TORCH_CUDA_VERSION) never leads to a fetch and never to a
\* resolved library directory.
C6_UnmappedDeviceFails ==
    UnmappedDevice => ("fetch" \notin ops /\ libtorch = "none")

\* C7: every environment variable the invocation has read is registered by a
\* rerun-if-env-changed directive.
C7_EveryReadRegistered ==
    readVars \subseteq registered

AnyBackend == use.cuda \/ use.cuda_cu \/ use.cuda_cpp \/ use.hip

\* C8 as stated: the dummy stub is compiled when any of the four flags is
\* true, the fake stub when all four are false.
C8_StubByAnyFlag ==
    c_files # {} =>
        /\ "libtch/dummy_cuda_dependency.cpp" \in c_files <=> AnyBackend
        /\ "libtch/fake_cuda_dependency.cpp" \in c_files <=> ~AnyBackend

\* C8: the dummy stub is compiled when the cuda flag or the hip flag is true,
\* the fake stub when both are false; the cuda_cu and cuda_cpp flags do not
\* count.
C8_StubByCudaOrHip ==
    c_files # {} =>
        /\ "libtch/dummy_cuda_dependency.cpp" \in c_files
               <=> (use.cuda \/ use.hip)
        /\ "libtch/fake_cuda_dependency.cpp" \in c_files
               <=> ~(use.cuda \/ use.hip)
        /\ "libtch/torch_api.cpp" \in c_files

C8_OnlyCuVariantDetected ==
    /\ use.cuda_cu /\ ~use.cuda /\ ~use.hip
    /\ "libtch/fake_cuda_dependency.cpp" \in c_files
    /\ pc = "done"

HasMarker(b) == SoName(b) \in files \/ DllName(b) \in files

\* main has printed its rustc-link-lib directives
LinksEmitted == pc = "done" \/ (pc = "failed" /\ err = "no_target")

\* C9: each flag is true exactly when a marker file of its own backend is in
\* the library directory; a backend's link directive is printed only if its
\* flag is true and, once the link directives are printed, if its flag is
\* true; a directory with only the CUDA marker gives torch_cuda alone; every
\* invocation that resolved a library and ended well printed the static tch
\* link and the torch_cpu, torch and c10 links.
C9_IndependentBackends ==
    /\ pc \in {"emit", "link", "done"} =>
          \A b \in Backends : use[b] <=> HasMarker(b)
    /\ \A b \in Backends :
          LinkDirective("torch_" \o b) \in directives => use[b]
    /\ (LinksEmitted /\ Resolved) =>
          \A b \in Backends :
             use[b] => LinkDirective("torch_" \o b) \in directives
    /\ (LinksEmitted /\ Resolved /\ files = {"libtorch_cuda.so"}) =>
          {b \in Backends : LinkDirective("torch_" \o b) \in directives}
              = {"cuda"}
    /\ (pc = "done" /\ Resolved) =>
          {LinkDirective(l) : l \in {"static=tch", "torch_cpu", "torch", "c10"}}
              \subseteq directives

C9_OnlyCudaMarker ==
    /\ pc = "done"
    /\ files = {"libtorch_cuda.so"}
    /\ use = [cuda |-> TRUE, cuda_cu |-> FALSE, cuda_cpp |-> FALSE,
              hip |-> FALSE]
    /\ LinkDirective("torch_cuda") \in directives
    /\ LinkDirective("torch_cpu") \in directives

DownloadErrors ==
    {"download_no_feature", "download_not_created", "download_transport",
     "download_status", "download_copy", "extract_bad_archive",
     "extract_entry", "extract_rename"}

\* C10: an invocation whose fetch or extraction failed prints no search-path
\* or link directive, and an invocation that finds OUT_DIR/libtorch as a
\* failed fetch or extraction left it (holding the archive only, or partly
\* extracted) does not take it for a resolved library.
C10_PartialResultNeverUsed ==
    /\ err \in DownloadErrors => (directives = {} /\ ~Resolved)
    /\ (mode = "download" /\ dirExisted = "yes"
          /\ outdir \in {"zip", "partial"}) => libtorch = "none"
====
